---- MODULE Spec2Model ----
(***************************************************************************)
(* A model of backend/main.py of the AI RAG Analyzer: the /upload handler  *)
(* (save, extract, chunk, embed-and-store), the /chat handler (retrieve,   *)
(* format, prompt, generate) and the pure helpers they call.               *)
(*                                                                         *)
(* Text is a sequence of one-character strings, so slicing, stripping and  *)
(* joining are computed on characters as the Python code computes them.    *)
(***************************************************************************)
EXTENDS Integers, Sequences, FiniteSets, TLC

(***************************************************************************)
(* Characters and strings                                                  *)
(***************************************************************************)
NL == "\n"
SP == " "
TAB == "\t"

\* str.strip() with no argument removes these from both ends
Whitespace == {SP, NL, TAB}

Rep(c, n) == [i \in 1..n |-> c]

\* str.endswith(suffix)
endswith(s, suffix) ==
    /\ Len(s) >= Len(suffix)
    /\ SubSeq(s, Len(s) - Len(suffix) + 1, Len(s)) = suffix

\* str.strip()
strip(s) ==
    LET keep == {i \in 1..Len(s) : s[i] \notin Whitespace}
    IN IF keep = {} THEN <<>>
       ELSE LET a == CHOOSE i \in keep : \A j \in keep : i <= j
                b == CHOOSE i \in keep : \A j \in keep : j <= i
            IN SubSeq(s, a, b)

\* separator.join(parts[lo..hi])
RECURSIVE join_range(_, _, _, _)
join_range(parts, separator, lo, hi) ==
    IF lo > hi THEN <<>>
    ELSE IF lo = hi THEN parts[lo]
    ELSE LET mid == (lo + hi) \div 2
         IN join_range(parts, separator, lo, mid) \o separator
              \o join_range(parts, separator, mid + 1, hi)

(***************************************************************************)
(* chunk_text: RecursiveCharacterTextSplitter(chunk_size=1000,             *)
(* chunk_overlap=200, length_function=len).create_documents([raw_text])    *)
(* with the splitter's defaults: separators ["\n\n", "\n", " ", ""],       *)
(* keep_separator=True (a separator opens the piece that follows it),     *)
(* strip_whitespace=True.                                                  *)
(***************************************************************************)
chunk_size == 1000
chunk_overlap == 200

Separators == << <<NL, NL>>, <<NL>>, <<SP>>, <<>> >>

\* position i starts an occurrence of sep in text
occurs_at(text, sep, i) ==
    /\ i + Len(sep) - 1 <= Len(text)
    /\ SubSeq(text, i, i + Len(sep) - 1) = sep

\* re.search(re.escape(sep), text)
re_search(text, sep) == \E i \in 1..Len(text) : occurs_at(text, sep, i)

\* Position i starts one of the leftmost, non-overlapping occurrences re.split
\* cuts at. The separators are runs of a single character (NL NL, NL, SP), so
\* inside a maximal run of that character the cuts fall every Len(sep) places
\* from the start of the run.
is_cut(text, sep, i) ==
    /\ occurs_at(text, sep, i)
    /\ LET before == {j \in 1..(i - 1) : text[j] # sep[1]}
           runstart == IF before = {} THEN 1
                       ELSE 1 + CHOOSE j \in before : \A k \in before : k <= j
       IN (i - runstart) % Len(sep) = 0

\* _split_text_with_regex(text, separator, keep_separator=True): the text before
\* the first separator, then every separator together with the text after it;
\* empty pieces are dropped. With the empty separator: list(text).
split_text_with_regex(text, sep) ==
    IF sep = <<>> THEN [i \in 1..Len(text) |-> <<text[i]>>]
    ELSE LET opens(i) == i = 1 \/ is_cut(text, sep, i)
             starts == SelectSeq([i \in 1..Len(text) |-> i], opens)
         IN [k \in 1..Len(starts) |->
               SubSeq(text, starts[k],
                      IF k < Len(starts) THEN starts[k + 1] - 1 ELSE Len(text))]

\* _join_docs: join, then strip; None (here the empty string) when nothing is left
join_docs(splits, separator, lo, hi) == strip(join_range(splits, separator, lo, hi))

\* the separator's length is charged only between two pieces
sep_cost(separator, n) == IF n > 0 THEN Len(separator) ELSE 0

\* The condition of the inner while loop of _merge_splits. current_doc is the
\* window splits[lo..hi]; it only loses pieces at the front and gains them at
\* the back, so the model keeps the window's two ends.
\* variant: the loop also drops a piece when exactly chunk_overlap is kept
pop_cond_eager(separator, n, total, len) ==
    \/ total >= chunk_overlap
    \/ (total + len + (IF n > 0 THEN Len(separator) ELSE 0) > chunk_size /\ total > 0)

pop_cond(separator, n, total, len) ==
    \/ total > chunk_overlap
    \/ (total + len + sep_cost(separator, n) > chunk_size /\ total > 0)

\* one pass of the while loop: drop current_doc[0]
pop_once(splits, separator, hi, len, p) ==
    IF pop_cond(separator, hi - p.lo + 1, p.total, len)
    THEN [lo |-> p.lo + 1,
          total |-> p.total - (Len(splits[p.lo])
                                + (IF hi - p.lo + 1 > 1 THEN Len(separator) ELSE 0))]
    ELSE p

\* n passes of the while loop; a pass after the condition turned false changes
\* nothing, so n = the window's size runs the loop to its end. The halves are
\* evaluated in order (q before the second half) to keep the evaluation flat.
RECURSIVE pop_iter(_, _, _, _, _, _)
pop_iter(splits, separator, hi, len, p, n) ==
    IF n = 0 THEN p
    ELSE IF n = 1 THEN pop_once(splits, separator, hi, len, p)
    ELSE LET q == pop_iter(splits, separator, hi, len, p, n \div 2)
         IN IF q.lo >= p.lo
            THEN pop_iter(splits, separator, hi, len, q, n - (n \div 2))
            ELSE q

pop_while(splits, separator, lo, hi, total, len) ==
    pop_iter(splits, separator, hi, len, [lo |-> lo, total |-> total], hi - lo + 1)

\* the body of "for d in splits" of _merge_splits, for d = splits[i];
\* st = [docs, lo, total] with current_doc = splits[st.lo..i-1]
merge_step(splits, separator, st, i) ==
    LET len == Len(splits[i])
        n == i - st.lo
        over == st.total + len + sep_cost(separator, n) > chunk_size
        doc == join_docs(splits, separator, st.lo, i - 1)
        docs1 == IF over /\ n > 0 /\ doc # <<>> THEN Append(st.docs, doc) ELSE st.docs
        p == IF over /\ n > 0
             THEN pop_while(splits, separator, st.lo, i - 1, st.total, len)
             ELSE [lo |-> st.lo, total |-> st.total]
    IN [docs |-> docs1, lo |-> p.lo,
        total |-> p.total + len + (IF i - p.lo + 1 > 1 THEN Len(separator) ELSE 0)]

\* the for loop over splits[lo..hi], left half first
RECURSIVE merge_loop(_, _, _, _, _)
merge_loop(splits, separator, st, lo, hi) ==
    IF lo > hi THEN st
    ELSE IF lo = hi THEN merge_step(splits, separator, st, lo)
    ELSE LET mid == (lo + hi) \div 2
             left == merge_loop(splits, separator, st, lo, mid)
         IN IF left.lo >= st.lo
            THEN merge_loop(splits, separator, left, mid + 1, hi)
            ELSE left

\* _merge_splits(splits, separator)
merge_splits(splits, separator) ==
    LET st == merge_loop(splits, separator,
                         [docs |-> <<>>, lo |-> 1, total |-> 0], 1, Len(splits))
        doc == join_docs(splits, separator, st.lo, Len(splits))
    IN IF doc # <<>> THEN Append(st.docs, doc) ELSE st.docs

\* The separator _split_text picks: the first of the list that is empty or
\* occurs in the text (every list the splitter passes down ends with "").
pick_separator(text, separators) ==
    CHOOSE i \in 1..Len(separators) :
        /\ separators[i] = <<>> \/ re_search(text, separators[i])
        /\ \A j \in 1..(i - 1) : separators[j] # <<>> /\ ~re_search(text, separators[j])

\* _split_text(text, separators), keep_separator=True so pieces are merged with
\* the empty separator. st = [final, glo]: final_chunks and the start of the
\* run of _good_splits, which are consecutive pieces splits[glo..i-1].
RECURSIVE split_text(_, _)
RECURSIVE split_loop(_, _, _, _, _)
split_loop(splits, new_separators, st, lo, hi) ==
    IF lo > hi THEN st
    ELSE IF lo = hi
    THEN IF Len(splits[lo]) < chunk_size THEN st
         ELSE [final |-> (IF st.glo <= lo - 1
                          THEN st.final \o merge_splits(SubSeq(splits, st.glo, lo - 1), <<>>)
                          ELSE st.final)
                         \o (IF new_separators = <<>> THEN <<splits[lo]>>
                             ELSE split_text(splits[lo], new_separators)),
               glo |-> lo + 1]
    ELSE LET mid == (lo + hi) \div 2
             left == split_loop(splits, new_separators, st, lo, mid)
         IN IF left.glo >= st.glo
            THEN split_loop(splits, new_separators, left, mid + 1, hi)
            ELSE left

split_text(text, separators) ==
    LET i == pick_separator(text, separators)
        separator == separators[i]
        new_separators == IF separator = <<>> THEN <<>>
                          ELSE SubSeq(separators, i + 1, Len(separators))
        splits == split_text_with_regex(text, separator)
        st == split_loop(splits, new_separators, [final |-> <<>>, glo |-> 1], 1, Len(splits))
    IN IF st.glo <= Len(splits)
       THEN st.final \o merge_splits(SubSeq(splits, st.glo, Len(splits)), <<>>)
       ELSE st.final

\* variant: fixed windows of chunk_size characters, one after the other
chunk_text_windows(raw_text) ==
    [i \in 1..((Len(raw_text) + chunk_size - 1) \div chunk_size) |->
        SubSeq(raw_text, (i - 1) * chunk_size + 1,
               IF i * chunk_size < Len(raw_text) THEN i * chunk_size ELSE Len(raw_text))]

\* chunk_text(raw_text): the page_content of the Documents, in order
chunk_text(raw_text) == split_text(raw_text, Separators)

(***************************************************************************)
(* Files, documents and the helpers of the two handlers                    *)
(***************************************************************************)
PDF_EXT == <<".", "p", "d", "f">>
UPLOAD_FOLDER == <<"t", "e", "m", "p", "_", "u", "p", "l", "o", "a", "d", "s">>

\* variant: no check of the extension
filename_ok_any(filename) == TRUE

\* file.filename.endswith(".pdf")
filename_ok(filename) == endswith(filename, PDF_EXT)

\* os.path.join(UPLOAD_FOLDER, file.filename): an absolute second part wins
os_path_join(a, b) ==
    IF b # <<>> /\ b[1] = "/" THEN b ELSE a \o <<"/">> \o b

\* The bytes of an upload: what PyPDF2 would make of them. valid = it parses as
\* a PDF; pages = the text page.extract_text() gives for each page.
Pdf(pages) == [valid |-> TRUE, pages |-> pages]
NotAPdf == [valid |-> FALSE, pages |-> <<>>]

\* The content of a file in temp_uploads: empty right after open(.., "wb"),
\* then the bytes of a document, whole (intact) or mixed with another writer's.
EmptyFile == [empty |-> TRUE, intact |-> FALSE, doc |-> NotAPdf]
FileOf(doc) == [empty |-> FALSE, intact |-> TRUE, doc |-> doc]
Garbled(doc) == [empty |-> FALSE, intact |-> FALSE, doc |-> doc]

\* the page loop of extract_text_from_pdf: a page with no text adds nothing
RECURSIVE page_text(_)
page_text(pages) ==
    IF pages = <<>> THEN <<>>
    ELSE (IF Head(pages) # <<>> THEN Head(pages) \o <<NL>> ELSE <<>>)
           \o page_text(Tail(pages))

\* extract_text_from_pdf(filepath) on the content found at filepath: the text,
\* or the exception "Failed to read PDF text: ..." when PdfReader cannot parse
extract_text_from_pdf(content) ==
    IF ~content.empty /\ content.intact /\ content.doc.valid
    THEN [ok |-> TRUE, text |-> page_text(content.doc.pages)]
    ELSE [ok |-> FALSE, text |-> <<>>]

\* variant: the texts joined by a single newline
format_docs_one_newline(docs) == join_range(docs, <<NL>>, 1, Len(docs))

\* format_docs(docs): "\n\n".join(doc.page_content for doc in docs)
format_docs(docs) == join_range(docs, <<NL, NL>>, 1, Len(docs))

\* search_kwargs={"k": 3}
retriever_k == 3

\* Neither from_documents(...) nor PineconeVectorStore(...) names a namespace:
\* both work on the index's default one.
DefaultNamespace == "default"
\* variant: uploads kept in a namespace of their own
upload_namespace_separate == "uploads"
upload_namespace == DefaultNamespace
chat_namespace == DefaultNamespace

\* the records from_documents adds for a list of chunks
records_of(chunks) ==
    [i \in 1..Len(chunks) |-> [text |-> chunks[i], namespace |-> upload_namespace]]

\* the positions of the index a query of the chat handler can return
candidates(index) == {i \in 1..Len(index) : index[i].namespace = chat_namespace}

\* The outcomes of a top-k similarity query: min(k, candidates) distinct
\* records, in the rank order the store gives them. The ranking is the store's
\* own (embedding similarity), so every order is possible.
top_k(index, k) ==
    LET cand == candidates(index)
        n == IF Cardinality(cand) < k THEN Cardinality(cand) ELSE k
    IN {h \in [1..n -> cand] : \A i, j \in 1..n : i # j => h[i] # h[j]}

\* variant: the answer trimmed before it is returned
StrOutputParser_strip(message) == strip(message.content)

\* StrOutputParser: the text content of the model's message
StrOutputParser(message) == message.content

\* the JSON bodies the handlers return or raise
upload_ok(filename, document_chunks) ==
    [status |-> 200,
     body |-> [message |-> "File successfully uploaded and processed.",
               filename |-> filename,
               total_chunks |-> Len(document_chunks)]]
chat_ok(answer) == [status |-> 200, body |-> [answer |-> answer]]
http_error(status, detail) == [status |-> status, body |-> [detail |-> detail]]

(***************************************************************************)
(* Bounds and inputs                                                       *)
(***************************************************************************)
MaxRequests == 2    \* requests the clients send in one run
NumWorkers == 2     \* server processes sharing temp_uploads and the index
MaxBlocks == 2      \* blocks a text given to chunk_text alone is made of

Req == 1..MaxRequests
Workers == 1..NumWorkers

A_PDF == <<"a", ".", "p", "d", "f">>
B_PDF == <<"b", ".", "p", "d", "f">>
A_TXT == <<"a", ".", "t", "x", "t">>

BlankPdf == Pdf(<< <<>>, <<>> >>)
ParisPdf == Pdf(<< <<"P", "a", "r", "i", "s", ".">> >>)

\* what the clients of a run may upload: small documents, under colliding names
SmallUploads ==
    ({A_PDF} \X {NotAPdf, BlankPdf, ParisPdf})
      \cup ({B_PDF} \X {ParisPdf}) \cup ({A_TXT} \X {ParisPdf})

\* documents whose text is a few chunks long, one request at a time
TenPages == Pdf([i \in 1..10 |-> Rep("p", 499)])
LargeUploads ==
    ({A_PDF} \X { Pdf(<<Rep("a", 4999)>>),
                  Pdf(<<Rep("a", 2400) \o Rep("b", 2599)>>),
                  Pdf(<<Rep("a", 2499), <<>>, Rep("b", 2499)>>),
                  TenPages,
                  Pdf(<<Rep("a", 999)>>), Pdf(<<Rep("a", 1000)>>),
                  Pdf(<<Rep("a", 1800)>>), NotAPdf })
      \cup ({A_PDF, B_PDF} \X {BlankPdf, ParisPdf})
      \cup ({A_TXT} \X {TenPages})

Questions == { <<"Q", "?">> }

\* what the language model may answer (an AIMessage), and what the index may
\* hold before the run
Completions == { [type |-> "ai", content |-> <<SP, "P", "a", "r", "i", "s", NL>>] }
SeededIndex == [i \in 1..3 |-> [text |-> <<"k", "0" >> \o Rep("s", i),
                                namespace |-> DefaultNamespace]]

(***************************************************************************)
(* State                                                                   *)
(***************************************************************************)
VARIABLES
    offered,  \* the (filename, document) pairs the clients may upload
    quota,    \* how many requests the clients send
    pc,       \* per request: where its handler stands
    req,      \* per request: what was sent
    worker,   \* per request: the server process running its handler
    loc,      \* per request: the handler's local variables
    resp,     \* per request: the response (status 0: none yet)
    calls,    \* per request: the I/O and pipeline steps it has made, in order
    fs,       \* temp_uploads: path -> content, for the files that exist
    store,    \* the Pinecone index: the records, in the order they were added
    arg,      \* chunk_text applied on its own: the text given
    ret       \* and what it returned

vars == <<offered, quota, pc, req, worker, loc, resp, calls, fs, store, arg, ret>>

NoInput == [kind |-> "none", filename |-> <<>>, doc |-> NotAPdf, question |-> <<>>]
NoLocals == [filepath |-> <<>>, raw_text |-> <<>>, document_chunks |-> <<>>,
             retrieved |-> <<>>, context |-> <<>>, prompt |-> <<>>,
             message |-> [type |-> "none", content |-> <<>>]]
NoResponse == [status |-> 0, body |-> <<>>]

InitServer ==
    /\ pc = [r \in Req |-> "idle"]
    /\ req = [r \in Req |-> NoInput]
    /\ worker = [r \in Req |-> 0]
    /\ loc = [r \in Req |-> NoLocals]
    /\ resp = [r \in Req |-> NoResponse]
    /\ calls = [r \in Req |-> <<>>]
    /\ fs = <<>>

\* chunk_text is not being applied on its own
NoCall ==
    /\ arg = <<>>
    /\ ret = [done |-> TRUE, chunks |-> <<>>]

Init ==
    /\ InitServer
    /\ NoCall
    /\ offered = SmallUploads
    /\ quota = MaxRequests
    /\ store \in {<<>>, SeededIndex}

InitIngest ==
    /\ InitServer
    /\ NoCall
    /\ offered = LargeUploads
    /\ quota = 1
    /\ store \in {<<>>, SeededIndex}

(***************************************************************************)
(* Dispatch. A handler is an async def with no await in it, so the event   *)
(* loop of one server process runs it from its first line to its return    *)
(* without letting another request of that process in; handlers of         *)
(* different processes interleave at every file and network operation.     *)
(***************************************************************************)
WorkerFree(w) == \A r \in Req : worker[r] = w => pc[r] = "done"

\* requests arrive in the order of their numbers; processes are taken in order
CanBegin(r, w) ==
    /\ pc[r] = "idle"
    /\ r <= quota
    /\ \A q \in Req : q < r => pc[q] # "idle"
    /\ WorkerFree(w)
    /\ \A v \in Workers : v < w => \E q \in Req : worker[q] = v

Finish(r, response) ==
    /\ resp' = [resp EXCEPT ![r] = response]
    /\ pc' = [pc EXCEPT ![r] = "done"]

Log(r, steps) == calls' = [calls EXCEPT ![r] = calls[r] \o steps]

(***************************************************************************)
(* POST /upload                                                            *)
(***************************************************************************)
\* lines 98-101: the filename check, then the path
UploadBegin(r) ==
    \E w \in Workers, up \in offered :
        /\ CanBegin(r, w)
        /\ req' = [req EXCEPT ![r] = [kind |-> "upload", filename |-> up[1],
                                      doc |-> up[2], question |-> <<>>]]
        /\ worker' = [worker EXCEPT ![r] = w]
        /\ IF filename_ok(up[1])
           THEN /\ loc' = [loc EXCEPT ![r].filepath = os_path_join(UPLOAD_FOLDER, up[1])]
                /\ pc' = [pc EXCEPT ![r] = "open"]
                /\ UNCHANGED resp
           ELSE /\ Finish(r, http_error(400, "Invalid file type. Only PDFs are allowed."))
                /\ UNCHANGED loc
        /\ UNCHANGED <<offered, quota, calls, fs, store, arg, ret>>

\* line 104: open(filepath, "wb") creates the file or cuts it to nothing
UploadOpen(r) ==
    /\ pc[r] = "open"
    /\ Log(r, <<"open">>)
    /\ \E ok \in BOOLEAN :
         IF ok
         THEN /\ fs' = [p \in DOMAIN fs \cup {loc[r].filepath} |->
                           IF p = loc[r].filepath THEN EmptyFile ELSE fs[p]]
              /\ pc' = [pc EXCEPT ![r] = "copy"]
              /\ UNCHANGED resp
         ELSE /\ Finish(r, http_error(500, "Could not save file: OSError"))
              /\ UNCHANGED fs
    /\ UNCHANGED <<offered, quota, req, worker, loc, store, arg, ret>>

\* What the file holds after this request wrote its bytes from offset 0. Over
\* bytes another request wrote since this one opened the file, the result is
\* this upload alone when it is at least as long, and otherwise this upload
\* followed by the rest of the other: both are possible.
written_over(content, doc) ==
    IF content.empty THEN {FileOf(doc)} ELSE {FileOf(doc), Garbled(doc)}

\* line 105: shutil.copyfileobj(file.file, buffer), then the file is closed
UploadCopy(r) ==
    /\ pc[r] = "copy"
    /\ Log(r, <<"copy">>)
    /\ \E ok \in BOOLEAN :
         IF ok
         THEN /\ \E c \in written_over(fs[loc[r].filepath], req[r].doc) :
                    fs' = [fs EXCEPT ![loc[r].filepath] = c]
              /\ pc' = [pc EXCEPT ![r] = "extract"]
              /\ UNCHANGED resp
         ELSE /\ Finish(r, http_error(500, "Could not save file: OSError"))
              /\ UNCHANGED fs
    /\ UNCHANGED <<offered, quota, req, worker, loc, store, arg, ret>>

\* variant: an extraction error is swallowed and the upload goes on with no text
UploadExtractSwallow(r) ==
    /\ pc[r] = "extract"
    /\ calls' = [calls EXCEPT ![r] = calls[r] \o <<"extract">>]
    /\ loc' = [loc EXCEPT ![r].raw_text = extract_text_from_pdf(fs[loc[r].filepath]).text]
    /\ pc' = [pc EXCEPT ![r] = "chunk"]
    /\ UNCHANGED <<offered, quota, req, worker, resp, fs, store, arg, ret>>

\* line 112: raw_text = extract_text_from_pdf(filepath)
UploadExtract(r) ==
    /\ pc[r] = "extract"
    /\ Log(r, <<"extract">>)
    /\ LET got == extract_text_from_pdf(fs[loc[r].filepath])
       IN IF got.ok
          THEN /\ loc' = [loc EXCEPT ![r].raw_text = got.text]
               /\ pc' = [pc EXCEPT ![r] = "chunk"]
               /\ UNCHANGED resp
          ELSE /\ Finish(r, http_error(500, "Failed to read PDF text: PdfReadError"))
               /\ UNCHANGED loc
    /\ UNCHANGED <<offered, quota, req, worker, fs, store, arg, ret>>

\* line 113: document_chunks = chunk_text(raw_text)
UploadChunk(r) ==
    /\ pc[r] = "chunk"
    /\ Log(r, <<"chunk">>)
    /\ loc' = [loc EXCEPT ![r].document_chunks = chunk_text(loc[r].raw_text)]
    /\ pc' = [pc EXCEPT ![r] = "store"]
    /\ UNCHANGED <<offered, quota, req, worker, resp, fs, store, arg, ret>>

\* lines 117-131: PineconeVectorStore.from_documents embeds the chunks and adds
\* them to the index, then the handler returns. When the call raises, part of
\* the batch may already be in the index.
UploadStore(r) ==
    /\ pc[r] = "store"
    /\ Log(r, <<"store_write">>)
    /\ \E ok \in BOOLEAN :
         IF ok
         THEN /\ store' = store \o records_of(loc[r].document_chunks)
              /\ Finish(r, upload_ok(req[r].filename, loc[r].document_chunks))
         ELSE \E n \in 0..Len(loc[r].document_chunks) :
                /\ store' = store \o records_of(SubSeq(loc[r].document_chunks, 1, n))
                /\ Finish(r, http_error(500, "PineconeException"))
    /\ UNCHANGED <<offered, quota, req, worker, loc, fs, arg, ret>>

(***************************************************************************)
(* POST /chat                                                              *)
(***************************************************************************)
\* lines 139-165: connect to the index, build retriever, prompt and chain
ChatBegin(r) ==
    \E w \in Workers, q \in Questions :
        /\ CanBegin(r, w)
        /\ req' = [req EXCEPT ![r] = [kind |-> "chat", filename |-> <<>>,
                                      doc |-> NotAPdf, question |-> q]]
        /\ worker' = [worker EXCEPT ![r] = w]
        /\ Log(r, <<"connect">>)
        /\ \E ok \in BOOLEAN :
             IF ok
             THEN /\ pc' = [pc EXCEPT ![r] = "retrieve"]
                  /\ UNCHANGED resp
             ELSE Finish(r, http_error(500, "PineconeException"))
        /\ UNCHANGED <<offered, quota, loc, fs, store, arg, ret>>

\* line 167, first stage of the chain: retriever | format_docs
ChatRetrieve(r) ==
    /\ pc[r] = "retrieve"
    /\ \E ok \in BOOLEAN :
         IF ok
         THEN /\ \E hits \in top_k(store, retriever_k) :
                   LET docs == [i \in 1..Len(hits) |-> store[hits[i]].text]
                   IN loc' = [loc EXCEPT ![r].retrieved = docs,
                                         ![r].context = format_docs(docs)]
              /\ Log(r, <<"retrieve", "format">>)
              /\ pc' = [pc EXCEPT ![r] = "generate"]
              /\ UNCHANGED resp
         ELSE /\ Log(r, <<"retrieve">>)
              /\ Finish(r, http_error(500, "PineconeException"))
              /\ UNCHANGED loc
    /\ UNCHANGED <<offered, quota, req, worker, fs, store, arg, ret>>

\* line 167, the rest of the chain: prompt | llm | StrOutputParser(), line 169
ChatGenerate(r) ==
    /\ pc[r] = "generate"
    /\ LET prompt == [context |-> loc[r].context, question |-> req[r].question]
       IN \E ok \in BOOLEAN :
            IF ok
            THEN \E m \in Completions :
                   /\ loc' = [loc EXCEPT ![r].prompt = prompt, ![r].message = m]
                   /\ Log(r, <<"prompt", "llm", "parse">>)
                   /\ Finish(r, chat_ok(StrOutputParser(m)))
            ELSE /\ loc' = [loc EXCEPT ![r].prompt = prompt]
                 /\ Log(r, <<"prompt", "llm">>)
                 /\ Finish(r, http_error(500, "GoogleGenerativeAIError"))
    /\ UNCHANGED <<offered, quota, req, worker, fs, store, arg, ret>>

Next ==
    \E r \in Req :
        \/ UploadBegin(r)
        \/ UploadOpen(r)
        \/ UploadCopy(r)
        \/ UploadExtract(r)
        \/ UploadChunk(r)
        \/ UploadStore(r)
        \/ ChatBegin(r)
        \/ ChatRetrieve(r)
        \/ ChatGenerate(r)

\* the server under concurrent requests for small documents
Spec == Init /\ [][Next]_vars

\* the server taking one request, for documents several chunks long
SpecIngest == InitIngest /\ [][Next]_vars

(***************************************************************************)
(* chunk_text on its own                                                   *)
(***************************************************************************)
Blocks == { Rep("a", 1000), Rep("b", 801), Rep("c", 200), <<"d">>,
            <<SP>>, <<NL>>, <<NL, NL>> }

RECURSIVE Concat(_)
Concat(ss) == IF ss = <<>> THEN <<>> ELSE Head(ss) \o Concat(Tail(ss))

Texts == { Concat(bs) : bs \in UNION { [1..n -> Blocks] : n \in 0..MaxBlocks } }

InitChunk ==
    /\ InitServer
    /\ offered = {}
    /\ quota = 0
    /\ store = <<>>
    /\ arg \in Texts
    /\ ret = [done |-> FALSE, chunks |-> <<>>]

ApplyChunkText ==
    /\ ~ret.done
    /\ ret' = [done |-> TRUE, chunks |-> chunk_text(arg)]
    /\ UNCHANGED <<offered, quota, pc, req, worker, loc, resp, calls, fs, store, arg>>

NextChunk == ApplyChunkText

SpecChunk == InitChunk /\ [][NextChunk]_vars

(***************************************************************************)
(* Properties                                                              *)
(***************************************************************************)
IsPrefix(s, t) == Len(s) <= Len(t) /\ SubSeq(t, 1, Len(s)) = s
Range(s) == {s[i] : i \in 1..Len(s)}
Count(s, x) == Cardinality({i \in 1..Len(s) : s[i] = x})
CeilDiv(a, b) == (a + b - 1) \div b

IsUpload(r) == req[r].kind = "upload"
IsChat(r) == req[r].kind = "chat"
Ok(r) == resp[r].status = 200
Failed(r, detail) == resp[r].status = 500 /\ resp[r].body = [detail |-> detail]

\* the upload's bytes reached the temporary file: the handler went on to extract
Saved(r) == IsUpload(r) /\ "extract" \in Range(calls[r])

\* the text and the chunk count of a document read back whole
OwnText(doc) == page_text(doc.pages)
OwnChunkCount(doc) == Len(chunk_text(OwnText(doc)))

NoTextPdf(doc) == doc.valid /\ \A i \in 1..Len(doc.pages) : doc.pages[i] = <<>>

\* C1: once an /upload that saved its bytes has finished, on any exit path, its
\* temporary file no longer exists.
C1_TempFileRemoved ==
    \A r \in Req : (Saved(r) /\ pc[r] = "done") => loc[r].filepath \notin DOMAIN fs

\* C2: the total_chunks an /upload of a PDF returns is the chunk count of the
\* content it uploaded itself, whatever other uploads of the same filename ran
\* meanwhile.
C2_OwnChunkCount ==
    \A r \in Req :
        (IsUpload(r) /\ Ok(r) /\ req[r].doc.valid)
           => resp[r].body.total_chunks = OwnChunkCount(req[r].doc)

\* C3: an /upload whose filename does not end in ".pdf" is answered 400 by the
\* step that takes it, which touches neither temp_uploads nor the index, and
\* the request never makes an I/O or pipeline call.
C3_RejectedBeforeIO ==
    [][\A r \in Req :
          (req'[r].kind = "upload" /\ ~endswith(req'[r].filename, PDF_EXT))
             => /\ pc'[r] = "done"
                /\ resp'[r] = http_error(400, "Invalid file type. Only PDFs are allowed.")
                /\ calls'[r] = <<>>
                /\ loc'[r] = NoLocals
                /\ pc[r] = "idle" => (fs' = fs /\ store' = store)]_vars

C3_Witness ==
    \E r \in Req : /\ IsUpload(r) /\ ~endswith(req[r].filename, PDF_EXT)
                   /\ resp[r].status = 400 /\ pc[r] = "done"

\* the extracted text has no whitespace but the newline closing its last page
OneSolidPage(text) ==
    /\ text # <<>>
    /\ text[Len(text)] = NL
    /\ \A i \in 1..(Len(text) - 1) : text[i] \notin Whitespace

\* C4 as claimed: a document whose extracted text is 5000 characters long is
\* ingested as total_chunks = 5, the value of ceil((L - 200) / (1000 - 200)).
C4_FiveChunks ==
    \A r \in Req :
        (IsUpload(r) /\ Ok(r) /\ Len(loc[r].raw_text) = 5000)
           => /\ resp[r].body.total_chunks = 5
              /\ CeilDiv(5000 - 200, 1000 - 200) = 5

\* C4, amended: a document whose extracted text is 5000 characters long with no
\* whitespace but the final newline is ingested as total_chunks = 6, the value
\* of ceil((L - 200) / (1000 - 200)).
C4_SixChunks ==
    \A r \in Req :
        (IsUpload(r) /\ Ok(r) /\ Len(loc[r].raw_text) = 5000 /\ OneSolidPage(loc[r].raw_text))
           => /\ resp[r].body.total_chunks = 6
              /\ CeilDiv(5000 - 200, 1000 - 200) = 6

C4_Witness ==
    \E r \in Req : /\ IsUpload(r) /\ Ok(r)
                   /\ Len(loc[r].raw_text) = 5000 /\ OneSolidPage(loc[r].raw_text)
                   /\ Len(loc[r].document_chunks) = 6

\* every chunk after the first begins with the last 200 characters of the one before
SharesOverlap(chunks) ==
    \A i \in 2..Len(chunks) :
        /\ Len(chunks[i]) >= 200 /\ Len(chunks[i - 1]) >= 200
        /\ SubSeq(chunks[i], 1, 200)
             = SubSeq(chunks[i - 1], Len(chunks[i - 1]) - 199, Len(chunks[i - 1]))

\* the first chunk, then every later chunk without its first 200 characters
RECURSIVE Rebuilt(_, _)
Rebuilt(chunks, i) ==
    IF i > Len(chunks) THEN <<>>
    ELSE (IF i = 1 THEN chunks[1] ELSE SubSeq(chunks[i], 201, Len(chunks[i])))
           \o Rebuilt(chunks, i + 1)

OverlapAndRebuild(text, chunks) ==
    /\ SharesOverlap(chunks)
    /\ Rebuilt(chunks, 1) = text
    /\ text = <<>> => chunks = <<>>

\* C5 as claimed: for any text, consecutive chunks share exactly 200 characters
\* and the chunks rebuild the text; the empty text gives no chunk.
C5_AnyText == ret.done => OverlapAndRebuild(arg, ret.chunks)

\* C5, amended: for any text without whitespace, consecutive chunks share
\* exactly 200 characters and the chunks rebuild the text; the empty text gives
\* no chunk.
C5_SolidText ==
    (ret.done /\ \A i \in 1..Len(arg) : arg[i] \notin Whitespace)
       => OverlapAndRebuild(arg, ret.chunks)

C5_Witness ==
    /\ ret.done
    /\ \A i \in 1..Len(arg) : arg[i] \notin Whitespace
    /\ Len(ret.chunks) >= 3
    /\ \E i, j \in 1..Len(arg) : arg[i] # arg[j]

\* C6: an /upload of a valid PDF none of whose pages has text, whose save and
\* index call did not fail, ends with status 200 and total_chunks = 0, having
\* extracted the empty string and made no chunk.
C6_EmptyPdfAccepted ==
    \A r \in Req :
        ( /\ IsUpload(r) /\ pc[r] = "done" /\ NoTextPdf(req[r].doc)
          /\ filename_ok(req[r].filename)
          /\ ~Failed(r, "Could not save file: OSError")
          /\ ~Failed(r, "PineconeException") )
           => /\ Ok(r)
              /\ resp[r].body.total_chunks = 0
              /\ loc[r].raw_text = <<>>
              /\ loc[r].document_chunks = <<>>

ChatSteps == <<"connect", "retrieve", "format", "prompt", "llm", "parse">>

\* C7: a finished /chat request has either status 200 and, as its answer, the
\* content of the language model's message as it came, or status 500 and only a
\* detail; it is 200 exactly when every step was made, and no step is made twice.
C7_ChatOutcome ==
    \A r \in Req :
        IsChat(r) =>
           /\ \A s \in Range(ChatSteps) : Count(calls[r], s) <= 1
           /\ IsPrefix(calls[r], ChatSteps)
           /\ pc[r] = "done" =>
                \/ /\ resp[r].status = 200
                   /\ DOMAIN resp[r].body = {"answer"}
                   /\ loc[r].message.type = "ai"
                   /\ resp[r].body.answer = loc[r].message.content
                   /\ calls[r] = ChatSteps
                \/ /\ resp[r].status = 500
                   /\ DOMAIN resp[r].body = {"detail"}
                   /\ calls[r] # ChatSteps

C7_Witness ==
    \E r \in Req : /\ IsChat(r) /\ pc[r] = "done" /\ Ok(r)
                   /\ resp[r].body.answer # strip(resp[r].body.answer)

\* C8: the context of a /chat request is made of at most 3 retrieved texts, in
\* the order the index returned them, with a blank line between two; with no
\* text retrieved it is empty, and the language model is called all the same.
C8_Context ==
    \A r \in Req :
        (IsChat(r) /\ "format" \in Range(calls[r])) =>
           LET d == loc[r].retrieved
               blank == <<NL, NL>>
           IN /\ Len(d) <= 3
              /\ Len(d) = 0 => loc[r].context = <<>>
              /\ Len(d) = 1 => loc[r].context = d[1]
              /\ Len(d) = 2 => loc[r].context = d[1] \o blank \o d[2]
              /\ Len(d) = 3 => loc[r].context = d[1] \o blank \o d[2] \o blank \o d[3]
              /\ pc[r] = "done" => /\ "llm" \in Range(calls[r])
                                   /\ loc[r].prompt.context = loc[r].context

C8_Witness ==
    \E r \in Req : /\ IsChat(r) /\ pc[r] = "done" /\ "llm" \in Range(calls[r])
                   /\ Len(loc[r].retrieved) = 3
                   /\ Cardinality(candidates(store)) > 3

\* C9: no step removes or changes a record of the index, and after every step
\* each chunk of each /upload answered 200 is among the records a /chat query
\* can return.
C9_SharedGrowingIndex ==
    [][/\ IsPrefix(store, store')
       /\ \A r \in Req :
            (req'[r].kind = "upload" /\ resp'[r].status = 200) =>
               \A i \in 1..Len(loc'[r].document_chunks) :
                  \E j \in candidates(store') :
                     store'[j].text = loc'[r].document_chunks[i]
       /\ \A r \in Req :
            (pc[r] = "retrieve" /\ pc'[r] = "generate") =>
               Len(loc'[r].retrieved) =
                  (IF Cardinality(candidates(store)) < 3
                   THEN Cardinality(candidates(store)) ELSE 3)]_vars

C9_Witness ==
    \E r, q \in Req :
        /\ IsUpload(r) /\ Ok(r) /\ Len(loc[r].document_chunks) >= 1
        /\ IsChat(q) /\ loc[r].document_chunks[1] \in Range(loc[q].retrieved)

UploadSteps == <<"open", "copy", "extract", "chunk", "store_write">>

\* C10: an /upload makes its steps in the order save, extract, chunk, store
\* write and stops at the step that fails; when saving fails or the saved file
\* cannot be read as a PDF the request ends with 500 and the index as it was;
\* no step of a /chat request changes the index or temp_uploads.
C10_OrderAndFrame ==
    [][\A r \in Req :
          /\ req'[r].kind = "upload" => IsPrefix(calls'[r], UploadSteps)
          /\ pc[r] = "done" => (pc'[r] = "done" /\ calls'[r] = calls[r] /\ resp'[r] = resp[r])
          /\ (pc[r] \in {"open", "copy"} /\ pc'[r] = "done")
                => (resp'[r].status = 500 /\ store' = store)
          /\ (pc[r] = "extract" /\ pc'[r] # "extract"
                /\ ~extract_text_from_pdf(fs[loc[r].filepath]).ok)
                => (pc'[r] = "done" /\ resp'[r].status = 500 /\ store' = store
                      /\ calls'[r] = <<"open", "copy", "extract">>)
          /\ (req'[r].kind = "chat" /\ pc'[r] # pc[r]) => (store' = store /\ fs' = fs)]_vars

C10_Witness ==
    /\ \E r \in Req : /\ IsUpload(r)
                      /\ Failed(r, "Failed to read PDF text: PdfReadError")
    /\ \E r \in Req : IsChat(r) /\ pc[r] = "done"

====
